---- MODULE Spec2Model ----
(***************************************************************************)
(* A model of src/api_server.py: the text helpers (normalize_text,         *)
(* clamp_message), the LLM backend chain (call_llm), the /chat handler,    *)
(* the Telegram webhook with its per-user model preference, and the        *)
(* session manager of the design document (not part of src/).             *)
(*                                                                         *)
(* A string is a sequence of one-character strings.  A few multi-letter    *)
(* items ("/set_model", "DeepSeek-V3", "HINT", ...) stand for a block of   *)
(* plain characters (no whitespace, no markup, never next to an "&").     *)
(***************************************************************************)
EXTENDS Integers, Sequences, FiniteSets, TLC

\* ------------------------------------------------------------------------
\* Strings
\* ------------------------------------------------------------------------

\* The whitespace of the alphabet: what str.strip() removes and \s matches.
WS == {" ", "\n", "\r"}

Max(S) == CHOOSE m \in S : \A k \in S : k <= m

Min(S) == CHOOSE m \in S : \A k \in S : m <= k

\* s[n:] of Python, n counted from 0.
Drop(s, n) == SubSeq(s, n + 1, Len(s))

\* s[:n] of Python for n >= 0.
Take(s, n) == SubSeq(s, 1, IF n < Len(s) THEN n ELSE Len(s))

\* str.rstrip(): the trailing whitespace removed.
rstrip(s) ==
    LET keep == {i \in 1..Len(s) : s[i] \notin WS}
    IN  IF keep = {} THEN <<>> ELSE SubSeq(s, 1, Max(keep))

\* str.lstrip(): the leading whitespace removed.
lstrip(s) ==
    LET keep == {i \in 1..Len(s) : s[i] \notin WS}
    IN  IF keep = {} THEN <<>> ELSE SubSeq(s, Min(keep), Len(s))

\* str.strip().
strip(s) == lstrip(rstrip(s))

\* The number of leading elements of s that lie in the set C.
RECURSIVE RunLen(_, _)
RunLen(s, C) ==
    IF s = <<>> \/ Head(s) \notin C THEN 0 ELSE 1 + RunLen(Tail(s), C)

\* ------------------------------------------------------------------------
\* normalize_text (src/api_server.py:65-75)
\* ------------------------------------------------------------------------

\* html.unescape's table, html.entities.html5, cut to the names the
\* alphabet can spell: its letters come only in the blocks amp, lt, gt, br, x.
Html5Names == { <<"a","m","p">>, <<"a","m","p",";">>,
                <<"l","t">>, <<"l","t",";">>,
                <<"g","t">>, <<"g","t",";">> }

Html5(name) ==
    IF name[1] = "a" THEN <<"&">> ELSE IF name[1] = "l" THEN <<"<">> ELSE <<">">>

\* The characters of [^\t\n\f <&#;] within the alphabet ("\r" is one of them).
NameChars == {"a","m","p","l","t","g","b","r","x",">","/","\r"}

\* The longest name of a character reference: {1,32}.
MaxNameLen == 32

\* html._replace_charref for a named reference s (the text after "&"):
\* the whole name, else the longest proper prefix of at least 2 characters
\* that is a name followed by the rest, else the text as it stood.
ReplaceCharref(s) ==
    IF s \in Html5Names THEN Html5(s)
    ELSE LET hits == {k \in 2..(Len(s) - 1) : SubSeq(s, 1, k) \in Html5Names}
         IN  IF hits = {} THEN <<"&">> \o s
             ELSE Html5(SubSeq(s, 1, Max(hits))) \o Drop(s, Max(hits))

\* html.unescape: _charref.sub(_replace_charref, s), left to right, a
\* replacement never scanned again.
RECURSIVE Unescape(_)
Unescape(s) ==
    IF s = <<>> THEN <<>>
    ELSE IF Head(s) # "&" THEN <<Head(s)>> \o Unescape(Tail(s))
    ELSE LET t    == Tail(s)
             run  == RunLen(t, NameChars)
             k    == IF run > MaxNameLen THEN MaxNameLen ELSE run
             semi == k < Len(t) /\ t[k + 1] = ";"
             n    == IF semi THEN k + 1 ELSE k
         IN  IF k = 0 THEN <<"&">> \o Unescape(t)
             ELSE ReplaceCharref(SubSeq(t, 1, n)) \o Unescape(Drop(t, n))

\* The length of the match of <\s*br\s*/?\s*> at the head of s, 0 for none.
BrMatch(s) ==
    IF s = <<>> \/ Head(s) # "<" THEN 0
    ELSE LET a  == 1 + RunLen(Drop(s, 1), WS)
             ok == a + 2 <= Len(s) /\ s[a + 1] = "b" /\ s[a + 2] = "r"
             b  == a + 2 + RunLen(Drop(s, a + 2), WS)
             c  == IF b < Len(s) /\ s[b + 1] = "/" THEN b + 1 ELSE b
             d  == c + RunLen(Drop(s, c), WS)
         IN  IF ok /\ d < Len(s) /\ s[d + 1] = ">" THEN d + 1 ELSE 0

\* re.sub(r"<\s*br\s*/?\s*>", "\n", s)
RECURSIVE BrToNewline(_)
BrToNewline(s) ==
    IF s = <<>> THEN <<>>
    ELSE LET m == BrMatch(s)
         IN  IF m > 0 THEN <<"\n">> \o BrToNewline(Drop(s, m))
             ELSE <<Head(s)>> \o BrToNewline(Tail(s))

\* The length of the match of </?[^>]+> at the head of s, 0 for none: up to
\* the first ">", with at least one character before it.
TagMatch(s) ==
    IF s = <<>> \/ Head(s) # "<" THEN 0
    ELSE LET gts == {i \in 2..Len(s) : s[i] = ">"}
         IN  IF gts = {} \/ Min(gts) < 3 THEN 0 ELSE Min(gts)

\* re.sub(r"</?[^>]+>", "", s)
RECURSIVE StripTags(_)
StripTags(s) ==
    IF s = <<>> THEN <<>>
    ELSE LET m == TagMatch(s)
         IN  IF m > 0 THEN StripTags(Drop(s, m))
             ELSE <<Head(s)>> \o StripTags(Tail(s))

\* s.replace("\r\n", "\n")
RECURSIVE ReplaceCRLF(_)
ReplaceCRLF(s) ==
    IF s = <<>> THEN <<>>
    ELSE IF Len(s) >= 2 /\ s[1] = "\r" /\ s[2] = "\n"
         THEN <<"\n">> \o ReplaceCRLF(Drop(s, 2))
         ELSE <<Head(s)>> \o ReplaceCRLF(Tail(s))

\* s.replace("\r", "\n")
ReplaceCR(s) == [i \in 1..Len(s) |-> IF s[i] = "\r" THEN "\n" ELSE s[i]]

\* re.sub(r"\n{3,}", "\n\n", s)
RECURSIVE CollapseNewlines(_)
CollapseNewlines(s) ==
    IF s = <<>> THEN <<>>
    ELSE LET n == RunLen(s, {"\n"})
         IN  IF n >= 3 THEN <<"\n", "\n">> \o CollapseNewlines(Drop(s, n))
             ELSE <<Head(s)>> \o CollapseNewlines(Tail(s))

normalize_text(s) ==
    IF s = <<>> THEN <<>>
    ELSE strip(CollapseNewlines(ReplaceCR(ReplaceCRLF(
             StripTags(BrToNewline(Unescape(s)))))))

\* ------------------------------------------------------------------------
\* clamp_message (src/api_server.py:78-82)
\* ------------------------------------------------------------------------

\* limit: int = 3500
DefaultLimit == 3500

\* The 30 characters kept free for the marker: s[: limit - 30].
TruncReserve == 30

\* "\n\n...(truncated)"
TruncMarker ==
    <<"\n","\n",".",".",".","(","t","r","u","n","c","a","t","e","d",")">>

\* s[:n] of Python, a negative n counting from the end.
SliceTo(s, n) ==
    IF n >= 0 THEN Take(s, n)
    ELSE IF Len(s) + n > 0 THEN Take(s, Len(s) + n) ELSE <<>>

\* clamp_message cutting at the limit itself: s[:limit] + marker.
clamp_message_no_reserve(s, limit) ==
    IF Len(s) <= limit THEN s
    ELSE rstrip(SliceTo(s, limit)) \o TruncMarker

clamp_message(s, limit) ==
    IF Len(s) <= limit THEN s
    ELSE rstrip(SliceTo(s, limit - TruncReserve)) \o TruncMarker

\* ------------------------------------------------------------------------
\* State
\* ------------------------------------------------------------------------

VARIABLES
    INTERNAL_ROUTER_URL,  \* configuration, read once from the environment
    LLM_BASE_URL,
    LLM_API_KEY,
    TELEGRAM_BOT_TOKEN,
    DEFAULT_MODEL,
    user_model,           \* telegram_user_id -> model
    selected,             \* per user, the model asked for since the last reset
    chat_model,           \* the same per chat
    req,                  \* the requests being served, one per handler slot
    text,                 \* a text passed through normalize_text
    passes,               \* how many times it was
    once,                 \* what the first pass returned
    outgoing,             \* a normalized text handed to clamp_message
    payload,              \* what tg_send would post for it
    session,              \* the session manager's shared session
    now,                  \* its clock
    builds,               \* the handshakes it performed
    acquired,             \* the acquire() and invalidate() calls, in order
    lock,                 \* the caller inside the critical section, or 0
    holds                 \* the handle each caller got from its last acquire()

confVars == <<INTERNAL_ROUTER_URL, LLM_BASE_URL, LLM_API_KEY,
              TELEGRAM_BOT_TOKEN, DEFAULT_MODEL>>

serverVars == <<user_model, selected, chat_model, req>>

normVars == <<text, passes, once>>

clampVars == <<outgoing, payload>>

sessionVars == <<session, now, builds, acquired, lock, holds>>

vars == <<confVars, serverVars, normVars, clampVars, sessionVars>>

\* What the server's steps leave alone.
notServer == <<normVars, clampVars, sessionVars>>

\* A str of Python in a condition.
Truthy(s) == s # <<>>

\* ------------------------------------------------------------------------
\* Models and preferences (src/api_server.py:34-59, 96-107)
\* ------------------------------------------------------------------------

AVAILABLE_MODELS ==
    << <<"DeepSeek-V1">>, <<"DeepSeek-V2">>, <<"DeepSeek-V2.5">>,
       <<"DeepSeek-V3">>, <<"DeepSeek-V3-0324">>, <<"DeepSeek-V3.1">>,
       <<"DeepSeek-V3.2">>, <<"DeepSeek-R1">>, <<"DeepSeek-R1-0528">>,
       <<"DeepSeek-R1-Distill">>, <<"DeepSeek-Prover-V1">>,
       <<"DeepSeek-Prover-V1.5">>, <<"DeepSeek-Prover-V2">>,
       <<"DeepSeek-VL">>, <<"DeepSeek-Coder">>, <<"DeepSeek-Coder-V2">>,
       <<"DeepSeek-Coder-6.7B-base">>, <<"DeepSeek-Coder-6.7B-instruct">> >>

\* m in AVAILABLE_MODELS
IsAvailable(m) == \E i \in 1..Len(AVAILABLE_MODELS) : AVAILABLE_MODELS[i] = m

get_user_current_model(tg_user_id) ==
    LET m == IF tg_user_id \in DOMAIN user_model /\ Truthy(user_model[tg_user_id])
             THEN user_model[tg_user_id] ELSE DEFAULT_MODEL
    IN  IF IsAvailable(m) THEN m ELSE DEFAULT_MODEL

\* user_model[tg_user_id] = model
DictSet(d, k, v) == [x \in DOMAIN d \cup {k} |-> IF x = k THEN v ELSE d[x]]

\* user_model.clear() in the place of the pop.
DictPop_clear(d, k) == <<>>

\* user_model.pop(tg_user_id, None)
DictPop(d, k) == [x \in DOMAIN d \ {k} |-> d[x]]

\* set_user_current_model without its membership test.
set_user_current_model_unchecked(tg_user_id, model) ==
    [ok |-> TRUE, dict |-> DictSet(user_model, tg_user_id, model)]

\* The value returned (ok) and user_model afterwards (dict).
set_user_current_model(tg_user_id, model) ==
    IF IsAvailable(model)
    THEN [ok |-> TRUE, dict |-> DictSet(user_model, tg_user_id, model)]
    ELSE [ok |-> FALSE, dict |-> user_model]

\* ------------------------------------------------------------------------
\* Messages: each fixed text is one block
\* ------------------------------------------------------------------------

MSG_EMPTY_PROMPT == <<"(write the text or question)">>

MSG_NO_REPLY == <<"(could not generate a reply)">>

MSG_LLM_ERROR == <<"(error while contacting the model)">>

Echo(prompt) ==
    <<"(received your message:)", " ">> \o prompt
        \o <<"\n", "\n", "(no LLM provider configured)">>

MSG_START == <<"(welcome)">>

MSG_HELP == <<"(usage)">>

RECURSIVE JoinLines(_)
JoinLines(ss) ==
    IF ss = <<>> THEN <<>>
    ELSE IF Len(ss) = 1 THEN ss[1]
    ELSE ss[1] \o <<"\n">> \o JoinLines(Tail(ss))

MSG_MODELS == <<"(available models:)", "\n">> \o JoinLines(AVAILABLE_MODELS)

MsgCurrent(m) == <<"(current model:)", " ">> \o m

MsgReset(m) == <<"(back to the default model:)", " ">> \o m

MSG_SET_USAGE == <<"(write the model name after the command)">>

MsgChosen(m) == <<"(model chosen:)", " ">> \o m

MSG_BAD_MODEL == <<"(invalid model)">>

MSG_TRANSLATE_USAGE == <<"(example: /translate ar en text)">>

MSG_SUMMARIZE_USAGE == <<"(write the text after /summarize)">>

MSG_IMPROVE_USAGE == <<"(write the text after /improve)">>

TranslatePrompt(src, dst, content) ==
    <<"Translate from", " ">> \o src \o <<" ", "to", " ">> \o dst
        \o <<".", " ", "Return only the translation.", "\n", "\n",
             "Text:", "\n">> \o content

SummarizePrompt(content) ==
    <<"Summarize the following text in 5 bullet points:", "\n", "\n">>
        \o content

ImprovePrompt(content) ==
    <<"Improve the following text and return only the improved version:",
      "\n", "\n">> \o content

\* ------------------------------------------------------------------------
\* A request being served
\* ------------------------------------------------------------------------

\* The handler slots: how many requests the model serves at the same time.
MaxInflight == 2

Slots == 1..MaxInflight

\* pc: idle | router | llm | send | done, the await the handler stands at.
\* uid, chat: from.id and chat.id of a Telegram message.
\* apikey_ok, req_model, input: the request as it came (the API-key header
\* equal to the expected key or not, the model and the question of /chat,
\* the stripped text of a Telegram message).
\* calls: the HTTP calls answered so far, [to, ok].  called/model/prompt: the
\* call of call_llm; returned/ret: what it returned.  answer: the answer of
\* the /chat response; sent: the text posted to Telegram; status: the HTTP
\* status of the response (500: the handler raised).
IdleReq ==
    [pc |-> "idle", kind |-> "none", apikey_ok |-> TRUE, uid |-> 0, chat |-> 0,
     req_model |-> <<>>, input |-> <<>>, called |-> FALSE, model |-> <<>>, prompt |-> <<>>,
     calls |-> <<>>, returned |-> FALSE, ret |-> <<>>, answer |-> <<>>,
     sent |-> <<>>, status |-> 0]

Awaiting == {"router", "llm", "send"}

\* The HTTP calls a request has made, the one it awaits included.
HttpCalls(r) == Len(r.calls) + (IF r.pc \in Awaiting THEN 1 ELSE 0)

\* return JSONResponse(...) / return ChatResponse(...)
Respond(r) == [r EXCEPT !.pc = "done", !.status = 200]

\* ------------------------------------------------------------------------
\* tg_send (src/api_server.py:85-93), up to its await
\* ------------------------------------------------------------------------

tg_send(r, t) ==
    IF ~Truthy(TELEGRAM_BOT_TOKEN) THEN Respond(r)
    ELSE [r EXCEPT !.pc = "send",
                   !.sent = clamp_message(normalize_text(t), DefaultLimit)]

\* ------------------------------------------------------------------------
\* call_llm (src/api_server.py:113-169), from await to await
\* ------------------------------------------------------------------------

\* call_llm returns ans to the handler that awaits it.
Resume(r, ans) ==
    LET r1 == [r EXCEPT !.returned = TRUE, !.ret = ans]
    IN  IF r.kind = "chat"
        THEN Respond([r1 EXCEPT !.answer = normalize_text(ans)])
        ELSE tg_send(r1, ans)

\* normalize_text(x) or "..."
ReplyOf(body) ==
    IF Truthy(normalize_text(body)) THEN normalize_text(body) ELSE MSG_NO_REPLY

\* 2) the OpenAI-compatible endpoint, else 3) the echo.
OpenAICompatible(r) ==
    IF Truthy(LLM_BASE_URL) /\ Truthy(LLM_API_KEY)
    THEN [r EXCEPT !.pc = "llm"]
    ELSE Resume(r, Echo(r.prompt))

\* call_llm without its test of the empty prompt.
call_llm_unguarded(r, model_name, prompt) ==
    LET r1 == [r EXCEPT !.called = TRUE, !.model = model_name,
                        !.prompt = strip(prompt)]
    IN  IF Truthy(INTERNAL_ROUTER_URL) THEN [r1 EXCEPT !.pc = "router"]
        ELSE OpenAICompatible(r1)

call_llm(r, model_name, prompt) ==
    LET r1 == [r EXCEPT !.called = TRUE, !.model = model_name,
                        !.prompt = strip(prompt)]
    IN  IF ~Truthy(r1.prompt) THEN Resume(r1, MSG_EMPTY_PROMPT)
        ELSE IF Truthy(INTERNAL_ROUTER_URL) THEN [r1 EXCEPT !.pc = "router"]
        ELSE OpenAICompatible(r1)

\* The router answered: out.ok, a 2xx with a JSON object whose answer text
\* is out.body; not out.ok, anything the try block raises on.
RouterReturns(r, out) ==
    LET r1 == [r EXCEPT !.calls = Append(@, [to |-> "router", ok |-> out.ok])]
    IN  IF out.ok THEN Resume(r1, ReplyOf(out.body)) ELSE OpenAICompatible(r1)

\* A failed call of the second endpoint made again.
LlmReturns_retrying(r, out) ==
    LET r1 == [r EXCEPT !.calls = Append(@, [to |-> "llm", ok |-> out.ok])]
    IN  IF out.ok THEN Resume(r1, ReplyOf(out.body))
        ELSE [r1 EXCEPT !.pc = "llm"]

LlmReturns(r, out) ==
    LET r1 == [r EXCEPT !.calls = Append(@, [to |-> "llm", ok |-> out.ok])]
    IN  IF out.ok THEN Resume(r1, ReplyOf(out.body))
        ELSE Resume(r1, MSG_LLM_ERROR)

\* client.post of tg_send returned, or raised: the handler then raises too.
TelegramReturns(r, ok) ==
    [r EXCEPT !.calls = Append(@, [to |-> "telegram", ok |-> ok]),
              !.pc = "done", !.status = IF ok THEN 200 ELSE 500]

\* ------------------------------------------------------------------------
\* chat (src/api_server.py:266-274), up to its await
\* ------------------------------------------------------------------------

\* chat without its membership test of the model.
chat_unchecked(r, m, q) ==
    LET model == IF Truthy(m) THEN strip(m) ELSE DEFAULT_MODEL
    IN  call_llm([r EXCEPT !.kind = "chat", !.req_model = m, !.input = q],
                 model, q)

chat(r, m, q) ==
    LET m1    == IF Truthy(m) THEN strip(m) ELSE DEFAULT_MODEL
        model == IF IsAvailable(m1) THEN m1 ELSE DEFAULT_MODEL
    IN  call_llm([r EXCEPT !.kind = "chat", !.req_model = m, !.input = q],
                 model, q)

\* ------------------------------------------------------------------------
\* telegram_webhook (src/api_server.py:280-389), up to its first await
\* ------------------------------------------------------------------------

\* text.startswith(cmd): a command is one block.
StartsWith(t, cmd) == t # <<>> /\ t[1] = cmd

\* str.split(maxsplit=n): the words, the last part being the rest.
RECURSIVE Split(_, _)
Split(s, n) ==
    LET t == lstrip(s)
        k == Min({i \in 1..Len(t) : t[i] \in WS} \cup {Len(t) + 1}) - 1
    IN  IF t = <<>> THEN <<>>
        ELSE IF n = 0 THEN <<t>>
        ELSE <<Take(t, k)>> \o Split(Drop(t, k), n - 1)

\* The handler on update u: the request after its synchronous part (r) and
\* user_model after it (dict).
telegram_webhook(r0, u) ==
    LET t     == strip(u.text)
        r     == [r0 EXCEPT !.kind = "hook", !.uid = u.from_id,
                            !.chat = u.chat_id, !.input = t]
        keep(x) == [r |-> x, dict |-> user_model]
        parts1 == Split(t, 1)
        parts3 == Split(t, 3)
        model == get_user_current_model(u.from_id)
    IN  IF ~u.has_message THEN keep(Respond([r EXCEPT !.input = <<>>]))
        ELSE IF u.chat_id = 0 \/ u.from_id = 0 THEN keep(Respond(r))
        ELSE IF StartsWith(t, "/start") THEN keep(tg_send(r, MSG_START))
        ELSE IF StartsWith(t, "/help") THEN keep(tg_send(r, MSG_HELP))
        ELSE IF StartsWith(t, "/models") THEN keep(tg_send(r, MSG_MODELS))
        ELSE IF StartsWith(t, "/current_model")
             THEN keep(tg_send(r, MsgCurrent(model)))
        ELSE IF StartsWith(t, "/reset_model")
             THEN [r |-> tg_send(r, MsgReset(DEFAULT_MODEL)),
                   dict |-> DictPop(user_model, u.from_id)]
        ELSE IF StartsWith(t, "/set_model")
             THEN IF Len(parts1) < 2 THEN keep(tg_send(r, MSG_SET_USAGE))
                  ELSE LET chosen == strip(parts1[2])
                           res == set_user_current_model(u.from_id, chosen)
                       IN  [r |-> tg_send(r, IF res.ok THEN MsgChosen(chosen)
                                                ELSE MSG_BAD_MODEL),
                            dict |-> res.dict]
        ELSE IF StartsWith(t, "/translate")
             THEN IF Len(parts3) < 4 THEN keep(tg_send(r, MSG_TRANSLATE_USAGE))
                  ELSE keep(call_llm(r, model,
                           TranslatePrompt(parts3[2], parts3[3], parts3[4])))
        ELSE IF StartsWith(t, "/summarize")
             THEN IF Len(parts1) < 2 THEN keep(tg_send(r, MSG_SUMMARIZE_USAGE))
                  ELSE keep(call_llm(r, model, SummarizePrompt(parts1[2])))
        ELSE IF StartsWith(t, "/improve")
             THEN IF Len(parts1) < 2 THEN keep(tg_send(r, MSG_IMPROVE_USAGE))
                  ELSE keep(call_llm(r, model, ImprovePrompt(parts1[2])))
        ELSE keep(call_llm(r, model, t))

\* ------------------------------------------------------------------------
\* The server: requests arrive, the backends and Telegram answer
\* ------------------------------------------------------------------------

\* What the environment variables may hold (after .strip()).
Settings == { <<>>, <<"(set)">> }

DefaultModels == { <<"DeepSeek-V3">>, <<"my-model">> }

\* The model field of a /chat body.
ChatModels == { <<>>, <<" ">>, <<" ", "DeepSeek-R1", " ">>, <<"gpt-4">> }

\* The question field of a /chat body.
ChatQuestions == { <<" ", " ", " ">>, <<"h", "i">> }

\* The answer text a backend's 2xx JSON carries ("" when it carries none).
Bodies == { <<"4">>, <<"<", "b", "r", ">">> }

Outcomes == {[ok |-> FALSE, body |-> <<>>]}
                \cup {[ok |-> TRUE, body |-> b] : b \in Bodies}

\* The texts of Telegram messages.
HookTexts ==
    { <<"/set_model", " ", "DeepSeek-R1">>,
      <<"/set_model", " ", "DeepSeek-V2", " ">>,
      <<"/set_model", " ", "gpt-4">>,
      <<"/set_model">>,
      <<"/reset_model">>,
      <<"/current_model">>,
      <<"/summarize", " ", "x">>,
      <<"h", "i">> }

\* from.id of the updates; 0 stands for a missing or zero id.
UserIds == {1, 2}

Updates ==
    [has_message : {TRUE}, chat_id : {5}, from_id : UserIds, text : HookTexts]
        \cup {[has_message |-> FALSE, chat_id |-> 0, from_id |-> 0, text |-> <<>>],
              [has_message |-> TRUE, chat_id |-> 5, from_id |-> 0,
               text |-> <<"/reset_model">>]}

\* The updates of the concurrent specification: the commands that touch
\* the preferences and a plain message, from two users, each in the private
\* chat with the bot (chat.id = from.id).
PrefTexts ==
    { <<"/set_model", " ", "DeepSeek-R1">>,
      <<"/set_model", " ", "gpt-4">>,
      <<"/set_model">>,
      <<"/reset_model">>,
      <<"h", "i">> }

OtherTexts ==
    { <<"/set_model", " ", "DeepSeek-V2">>,
      <<"/reset_model">> }

PrefUpdates ==
    [has_message : {TRUE}, chat_id : {1}, from_id : {1}, text : PrefTexts]
        \cup [has_message : {TRUE}, chat_id : {2}, from_id : {2},
              text : OtherTexts]

\* The updates of the specification of the chats: the same commands and a
\* plain message, from both users, in a group (5) and in another chat (6).
ChatIds == {5, 6}

ChatTexts == PrefTexts \cup OtherTexts

ChatUpdates ==
    [has_message : {TRUE}, chat_id : ChatIds, from_id : UserIds,
     text : ChatTexts]

Free(p) == req[p].pc \in {"idle", "done"}

\* What the users asked for, read off the updates alone: the text of u is
\* the /reset_model command, or the /set_model command followed by the name
\* of an available model.
AsksReset(u) == u.text # <<>> /\ u.text[1] = "/reset_model"

AsksModel(u) ==
    /\ Len(u.text) >= 3
    /\ u.text[1] = "/set_model"
    /\ u.text[2] \in WS
    /\ IsAvailable(strip(Drop(u.text, 2)))

\* sel, a record of what was asked for per key, after update u of key k.
Asked(sel, u, k) ==
    IF ~u.has_message \/ u.chat_id = 0 \/ u.from_id = 0 THEN sel
    ELSE IF AsksReset(u) THEN [x \in DOMAIN sel \ {k} |-> sel[x]]
    ELSE IF AsksModel(u)
         THEN [x \in DOMAIN sel \cup {k} |->
                  IF x = k THEN strip(Drop(u.text, 2)) ELSE sel[x]]
    ELSE sel

\* POST /chat with an API-key header that equals the expected key or not
\* (apikey_ok), a model and a question.
ChatBegin(p) ==
    /\ Free(p)
    /\ \E k \in BOOLEAN, m \in ChatModels, q \in ChatQuestions :
           req' = [req EXCEPT ![p] = chat([IdleReq EXCEPT !.apikey_ok = k], m, q)]
    /\ UNCHANGED <<confVars, user_model, selected, chat_model, notServer>>

\* POST /telegram/webhook with an update of U.
HookBegin(p, U) ==
    /\ Free(p)
    /\ \E u \in U :
           LET res == telegram_webhook(IdleReq, u)
           IN  /\ req' = [req EXCEPT ![p] = res.r]
               /\ user_model' = res.dict
               /\ selected' = Asked(selected, u, u.from_id)
               /\ chat_model' = Asked(chat_model, u, u.chat_id)
    /\ UNCHANGED <<confVars, notServer>>

RouterResponds(p) ==
    /\ req[p].pc = "router"
    /\ \E out \in Outcomes : req' = [req EXCEPT ![p] = RouterReturns(req[p], out)]
    /\ UNCHANGED <<confVars, user_model, selected, chat_model, notServer>>

LlmResponds(p) ==
    /\ req[p].pc = "llm"
    /\ \E out \in Outcomes : req' = [req EXCEPT ![p] = LlmReturns(req[p], out)]
    /\ UNCHANGED <<confVars, user_model, selected, chat_model, notServer>>

TelegramResponds(p) ==
    /\ req[p].pc = "send"
    /\ \E ok \in BOOLEAN : req' = [req EXCEPT ![p] = TelegramReturns(req[p], ok)]
    /\ UNCHANGED <<confVars, user_model, selected, chat_model, notServer>>

ConfInit ==
    /\ INTERNAL_ROUTER_URL \in Settings
    /\ LLM_BASE_URL \in Settings
    /\ LLM_API_KEY \in Settings
    /\ TELEGRAM_BOT_TOKEN \in Settings
    /\ DEFAULT_MODEL \in DefaultModels

ServerInit ==
    /\ user_model = <<>>
    /\ selected = <<>>
    /\ chat_model = <<>>
    /\ req = [p \in Slots |-> IdleReq]

NormIdle == text = <<>> /\ passes = 0 /\ once = <<>>

ClampIdle == outgoing = <<>> /\ payload = <<>>

\* Absent: no session has been built yet.
Absent == [built |-> FALSE, cookie |-> 0, created |-> 0, valid |-> FALSE]

SessionIdle ==
    /\ session = Absent /\ now = 0 /\ builds = 0 /\ acquired = <<>>
    /\ lock = 0 /\ holds = <<>>

\* Spec: every configuration, both endpoints, one request served at a time
\* (call_llm and chat keep no state between requests).
Init == ConfInit /\ ServerInit /\ NormIdle /\ ClampIdle /\ SessionIdle

Next ==
    \/ ChatBegin(1)
    \/ HookBegin(1, Updates)
    \/ RouterResponds(1)
    \/ LlmResponds(1)
    \/ TelegramResponds(1)

Spec == Init /\ [][Next]_vars

\* PrefSpec: the webhook served to several users at once, the handlers
\* interleaving at their awaits; no LLM backend is configured, so call_llm
\* returns without awaiting.
PrefInit ==
    /\ INTERNAL_ROUTER_URL = <<>>
    /\ LLM_BASE_URL = <<>>
    /\ LLM_API_KEY = <<>>
    /\ TELEGRAM_BOT_TOKEN = <<"(set)">>
    /\ DEFAULT_MODEL = <<"DeepSeek-V3">>
    /\ ServerInit /\ NormIdle /\ ClampIdle /\ SessionIdle

PrefNext ==
    \E p \in Slots :
        \/ HookBegin(p, PrefUpdates)
        \/ TelegramResponds(p)

PrefSpec == PrefInit /\ [][PrefNext]_vars

\* ChatSpec: the webhook served to two users writing in two chats, one
\* update at a time, configured as in PrefSpec.
ChatInit == PrefInit

ChatNext ==
    \/ HookBegin(1, ChatUpdates)
    \/ TelegramResponds(1)

ChatSpec == ChatInit /\ [][ChatNext]_vars

\* ------------------------------------------------------------------------
\* Properties of the server (Spec)
\* ------------------------------------------------------------------------

IsBackendCall(c) == c.to \in {"router", "llm"}

\* The HTTP calls call_llm made for a request, answered ones.
LlmCalls(r) == SelectSeq(r.calls, IsBackendCall)

\* The backends call_llm contacted, the one it awaits included.
Targets(r) ==
    [i \in 1..Len(LlmCalls(r)) |-> LlmCalls(r)[i].to]
        \o (IF r.pc \in {"router", "llm"} THEN <<r.pc>> ELSE <<>>)

Contacted(r, b) == \E i \in 1..Len(Targets(r)) : Targets(r)[i] = b

RouterConfigured == Truthy(INTERNAL_ROUTER_URL)

LlmConfigured == Truthy(LLM_BASE_URL) /\ Truthy(LLM_API_KEY)

\* call_llm is over for the request.
LlmOver(r) == r.called /\ r.pc \in {"send", "done"}

BlankChat(r) == r.kind = "chat" /\ strip(r.input) = <<>>

C5_NoUpstreamWithoutKey ==
    \A p \in Slots :
        (req[p].kind = "chat" /\ ~req[p].apikey_ok)
            => (~req[p].called /\ HttpCalls(req[p]) = 0)

\* The order of C8: the router first when configured, the second endpoint
\* only after no router or a failed router call, never after a successful
\* one, and call_llm ends by returning.
PriorityOrder(r) ==
    (r.called /\ Truthy(r.prompt)) =>
        /\ (RouterConfigured /\ Targets(r) # <<>>) => Targets(r)[1] = "router"
        /\ Contacted(r, "llm")
               => \/ ~RouterConfigured
                  \/ r.calls[1] = [to |-> "router", ok |-> FALSE]
        /\ (r.calls # <<>> /\ r.calls[1] = [to |-> "router", ok |-> TRUE])
               => ~Contacted(r, "llm")
        /\ LlmOver(r) => r.returned

ReturnedEcho(r) ==
    r.called /\ Truthy(r.prompt) /\ r.returned /\ r.ret = Echo(r.prompt)

\* C8: call_llm keeps the priority order, and it returns the echo only when
\* neither backend is configured.
C8_EchoOnlyUnconfigured ==
    \A p \in Slots :
        /\ PriorityOrder(req[p])
        /\ ReturnedEcho(req[p]) => (~RouterConfigured /\ ~LlmConfigured)

\* C10: every stored preference is an available model and, DEFAULT_MODEL
\* being one, so is the model passed to call_llm (and echoed by /chat),
\* whatever the client sent.
C10_ModelsAvailable ==
    /\ \A k \in DOMAIN user_model : IsAvailable(user_model[k])
    /\ IsAvailable(DEFAULT_MODEL)
           => \A p \in Slots : req[p].called => IsAvailable(req[p].model)

C10_Witness ==
    \E p \in Slots :
        /\ req[p].kind = "chat" /\ req[p].req_model = <<"gpt-4">>
        /\ req[p].called /\ req[p].pc = "done"
        /\ req[p].model = DEFAULT_MODEL /\ IsAvailable(DEFAULT_MODEL)
        /\ user_model # <<>>

\* ------------------------------------------------------------------------
\* Properties of the preferences (ChatSpec, PrefSpec)
\* ------------------------------------------------------------------------

\* C6 amended, the preference being one per user (from.id), whatever the
\* chat: after every step a user has an entry exactly when that user
\* validly selected a model since that user's last reset, the current model
\* of the user is that selection, the default model when there is none, and
\* it is the model a message of the user is answered with.
C6_Lifecycle ==
    [][/\ \A k \in UserIds :
              /\ k \in DOMAIN user_model' <=> k \in DOMAIN selected'
              /\ k \in DOMAIN user_model' => user_model'[k] = selected'[k]
              /\ get_user_current_model(k)' =
                     IF k \in DOMAIN selected' THEN selected'[k]
                     ELSE DEFAULT_MODEL
       /\ \A p \in Slots :
              (Free(p) /\ req'[p] # req[p] /\ req'[p].called)
                  => req'[p].model =
                         IF req'[p].uid \in DOMAIN selected'
                         THEN selected'[req'[p].uid] ELSE DEFAULT_MODEL]_vars

C6_Witness ==
    /\ 1 \in DOMAIN user_model /\ user_model[1] = <<"DeepSeek-R1">>
    /\ 2 \notin DOMAIN user_model
    /\ selected = (1 :> <<"DeepSeek-R1">>)
    /\ chat_model = (5 :> <<"DeepSeek-V2">>)
    /\ req[1].uid = 1 /\ req[1].chat = 5 /\ req[1].input = <<"h", "i">>
    /\ req[1].called /\ req[1].model = <<"DeepSeek-R1">>

\* C6 as stated, the preference being one per conversation (chat): the
\* model a message is answered with is the last one validly selected in
\* its chat since the last reset there, the default model if none.
C6_PerConversation ==
    [][\A p \in Slots :
           (Free(p) /\ req'[p] # req[p] /\ req'[p].called)
               => req'[p].model =
                      IF req'[p].chat \in DOMAIN chat_model'
                      THEN chat_model'[req'[p].chat] ELSE DEFAULT_MODEL]_vars

Entry(d, k) == IF k \in DOMAIN d THEN d[k] ELSE <<>>

\* The text is a /set_model command with no name or with a name that is
\* not an available model.
BadSetModel(t) ==
    /\ StartsWith(t, "/set_model")
    /\ ~(Len(t) >= 3 /\ t[2] \in WS /\ IsAvailable(strip(Drop(t, 2))))

Pieces ==
    { <<"&">>, <<"a", "m", "p">>, <<"l", "t">>, <<"g", "t">>, <<";">>,
      <<"&", "a", "m", "p", ";">>, <<"&", "l", "t", ";">>,
      <<"&", "g", "t", ";">>,
      <<"<">>, <<">">>, <<"/">>, <<"b", "r">>, <<"x">>,
      <<" ">>, <<"\n">>, <<"\r">> }

\* The most pieces in a text.
MaxPieces == 3

\* The most passes of normalize_text over a text: call_llm normalizes the
\* backend's answer, chat and tg_send normalize what call_llm returned.
MaxPasses == 2

RECURSIVE Concat(_)
Concat(ss) == IF ss = <<>> THEN <<>> ELSE Head(ss) \o Concat(Tail(ss))

NormInit ==
    /\ \E n \in 0..MaxPieces : \E ps \in [1..n -> Pieces] : text = Concat(ps)
    /\ passes = 0
    /\ once = <<>>
    /\ INTERNAL_ROUTER_URL = <<>> /\ LLM_BASE_URL = <<>> /\ LLM_API_KEY = <<>>
    /\ TELEGRAM_BOT_TOKEN = <<>> /\ DEFAULT_MODEL = <<"DeepSeek-V3">>
    /\ ServerInit /\ ClampIdle /\ SessionIdle

\* text = normalize_text(text)
Normalize ==
    /\ passes < MaxPasses
    /\ text' = normalize_text(text)
    /\ passes' = passes + 1
    /\ once' = IF passes = 0 THEN text' ELSE once
    /\ UNCHANGED <<confVars, serverVars, clampVars, sessionVars>>

NormNext == Normalize

NormSpec == NormInit /\ [][NormNext]_vars

\* C1: normalize_text is idempotent: a second pass returns what the first
\* pass returned.
C1_Idempotent == passes >= 2 => text = once

\* ------------------------------------------------------------------------
\* tg_send's clamp on long texts (ClampSpec)
\* ------------------------------------------------------------------------

\* The most runs of equal characters in a text.
MaxRuns == 3

\* The lengths of the runs: short ones, and ones that reach the limit.
RunLengths ==
    {1, TruncReserve - 1,
     DefaultLimit - TruncReserve, DefaultLimit - TruncReserve + 1}

Runs(s) == Cardinality({i \in 1..Len(s) : i = 1 \/ s[i] # s[i - 1]})

NotPosted == [posted |-> FALSE, text |-> <<>>]

ClampInit ==
    /\ outgoing = <<>>
    /\ payload = NotPosted
    /\ INTERNAL_ROUTER_URL = <<>> /\ LLM_BASE_URL = <<>> /\ LLM_API_KEY = <<>>
    /\ TELEGRAM_BOT_TOKEN = <<"(set)">> /\ DEFAULT_MODEL = <<"DeepSeek-V3">>
    /\ ServerInit /\ NormIdle /\ SessionIdle

\* A text grows by a run of n characters c.
Compose ==
    /\ ~payload.posted
    /\ Runs(outgoing) < MaxRuns
    /\ \E c \in {"x", " "}, n \in RunLengths :
           /\ IF outgoing = <<>> THEN TRUE ELSE outgoing[Len(outgoing)] # c
           /\ outgoing' = outgoing \o [i \in 1..n |-> c]
    /\ UNCHANGED <<payload, confVars, serverVars, normVars, sessionVars>>

\* What s.strip() leaves, the last step of normalize_text.
Stripped(s) ==
    IF s = <<>> THEN TRUE ELSE s[1] \notin WS /\ s[Len(s)] \notin WS

\* tg_send, when there is a bot token, posts clamp_message of the text that
\* normalize_text returned to it.
Deliver ==
    /\ ~payload.posted
    /\ Truthy(TELEGRAM_BOT_TOKEN)
    /\ Stripped(outgoing)
    /\ payload' = [posted |-> TRUE,
                   text |-> clamp_message(outgoing, DefaultLimit)]
    /\ UNCHANGED <<outgoing, confVars, serverVars, normVars, sessionVars>>

ClampNext == Compose \/ Deliver

ClampSpec == ClampInit /\ [][ClampNext]_vars

EndsWith(s, m) ==
    Len(s) >= Len(m) /\ SubSeq(s, Len(s) - Len(m) + 1, Len(s)) = m

IsPrefix(a, b) == Len(a) <= Len(b) /\ SubSeq(b, 1, Len(a)) = a

\* C7: a posted text is within the limit; a text within the limit is
\* posted unchanged, a longer one cut to a prefix followed by the marker.
C7_WithinLimit ==
    payload.posted =>
        /\ Len(payload.text) <= DefaultLimit
        /\ Len(outgoing) <= DefaultLimit => payload.text = outgoing
        /\ Len(outgoing) > DefaultLimit =>
               /\ EndsWith(payload.text, TruncMarker)
               /\ IsPrefix(SubSeq(payload.text, 1,
                                  Len(payload.text) - Len(TruncMarker)),
                           outgoing)

C7_Witness ==
    /\ payload.posted
    /\ Len(outgoing) = DefaultLimit + 1
    /\ Len(payload.text) < DefaultLimit - TruncReserve

\* ------------------------------------------------------------------------
\* The session manager of the design document (SessionSpec)
\* ------------------------------------------------------------------------

\* The time-to-live of a session, in seconds.
TTL == 600

\* The concurrent callers of the session manager.
MaxCallers == 2

Callers == 1..MaxCallers

\* The calls that are recorded, and how far the clock runs.
MaxEvents == 3

MaxTicks == 4

TickLength == TTL \div 2

\* Stale with the age compared by > in the place of >=.
Stale_late(s, t) == ~s.built \/ ~s.valid \/ t - s.created > TTL

\* Stale: absent, invalidated, or of age >= TTL at time t.
Stale(s, t) == ~s.built \/ ~s.valid \/ t - s.created >= TTL

\* Build: the handshake installs a new cookie; the session is born at t.
Build(n, t) == [built |-> TRUE, cookie |-> n, created |-> t, valid |-> TRUE]

SessionInit ==
    /\ session = Absent /\ now = 0 /\ builds = 0 /\ acquired = <<>>
    /\ lock = 0 /\ holds = [c \in Callers |-> 0]
    /\ INTERNAL_ROUTER_URL = <<>> /\ LLM_BASE_URL = <<>> /\ LLM_API_KEY = <<>>
    /\ TELEGRAM_BOT_TOKEN = <<>> /\ DEFAULT_MODEL = <<"DeepSeek-V3">>
    /\ ServerInit /\ NormIdle /\ ClampIdle

\* acquire(), entering the critical section (the one lock of the process).
AcquireEnter(c) ==
    /\ lock = 0
    /\ Len(acquired) < MaxEvents
    /\ lock' = c
    /\ UNCHANGED <<session, now, builds, acquired, holds>>
    /\ UNCHANGED <<confVars, serverVars, normVars, clampVars>>

\* acquire(), inside the critical section: check the age, rebuild a stale
\* session, hand the session out, leave.
AcquireReturn(c) ==
    /\ lock = c
    /\ LET stale == Stale(session, now)
           s == IF stale THEN Build(builds + 1, now) ELSE session
       IN  /\ session' = s
           /\ builds' = IF stale THEN builds + 1 ELSE builds
           /\ holds' = [holds EXCEPT ![c] = s.cookie]
           /\ acquired' = Append(acquired,
                  [op |-> "acquire", by |-> c, at |-> now,
                   cookie |-> s.cookie, created |-> s.created,
                   rebuilds |-> builds' - builds])
    /\ lock' = 0
    /\ UNCHANGED now
    /\ UNCHANGED <<confVars, serverVars, normVars, clampVars>>

\* acquire(), inside the critical section, when the build fails: the error
\* goes to the caller and no session is installed.
AcquireFails(c) ==
    /\ lock = c
    /\ Stale(session, now)
    /\ lock' = 0
    /\ UNCHANGED <<session, now, builds, acquired, holds>>
    /\ UNCHANGED <<confVars, serverVars, normVars, clampVars>>

\* invalidate(): the next acquire() rebuilds.
Invalidate(c) ==
    /\ lock = 0
    /\ Len(acquired) < MaxEvents
    /\ session' = [session EXCEPT !.valid = FALSE]
    /\ acquired' = Append(acquired,
           [op |-> "invalidate", by |-> c, at |-> now,
            cookie |-> 0, created |-> 0, rebuilds |-> 0])
    /\ UNCHANGED <<now, builds, lock, holds>>
    /\ UNCHANGED <<confVars, serverVars, normVars, clampVars>>

\* Time passes.
Tick ==
    /\ now < MaxTicks * TickLength
    /\ now' = now + TickLength
    /\ UNCHANGED <<session, builds, acquired, lock, holds>>
    /\ UNCHANGED <<confVars, serverVars, normVars, clampVars>>

SessionNext ==
    \/ \E c \in Callers : AcquireEnter(c)
    \/ \E c \in Callers : AcquireReturn(c)
    \/ \E c \in Callers : AcquireFails(c)
    \/ \E c \in Callers : Invalidate(c)
    \/ Tick

SessionSpec == SessionInit /\ [][SessionNext]_vars

Acquires == {i \in 1..Len(acquired) : acquired[i].op = "acquire"}

InvalidatedBetween(i, j) ==
    \E k \in (i + 1)..(j - 1) : acquired[k].op = "invalidate"

\* The acquire() before the j-th call, if any.
Previous(j) == {i \in Acquires : i < j /\ \A k \in Acquires : k < j => k <= i}

\* C4: two acquire() calls within the TTL of the session the first one
\* returned, with no invalidate() between them, return the same cookie; an
\* acquire() after the TTL or after an invalidate() makes exactly one
\* rebuild and returns a new cookie; no acquire() returns a session of age
\* >= TTL, and none rebuilds more than once.
C4_SessionReuse ==
    /\ \A j \in Acquires :
           /\ acquired[j].at - acquired[j].created < TTL
           /\ acquired[j].rebuilds \in {0, 1}
    /\ \A i, j \in Acquires :
           (/\ i < j
            /\ ~InvalidatedBetween(i, j)
            /\ acquired[j].at - acquired[i].created < TTL)
           => /\ acquired[j].cookie = acquired[i].cookie
              /\ acquired[j].rebuilds = 0
    /\ \A j \in Acquires : \A i \in Previous(j) :
           (\/ InvalidatedBetween(i, j)
            \/ acquired[j].at - acquired[i].created >= TTL)
           => /\ acquired[j].rebuilds = 1
              /\ acquired[j].cookie # acquired[i].cookie

C4_Witness ==
    /\ Len(acquired) = 3
    /\ \A k \in 1..3 : acquired[k].op = "acquire"
    /\ acquired[1].by # acquired[2].by
    /\ acquired[2].cookie = acquired[1].cookie
    /\ acquired[2].at > acquired[1].at
    /\ acquired[3].at - acquired[1].created = TTL
    /\ acquired[3].rebuilds = 1

====
